---- MODULE Spec2Model ----
(***************************************************************************)
(* War Bot: the timer store (src/main.py, src/models.py) and the Discord   *)
(* bot's Pro Drop alert scheduler (src/bot.py).                            *)
(*                                                                         *)
(* Time is counted in units of one alert-loop interval (30 seconds), as    *)
(* UTC instants.  The ISO-8601 texts exchanged between the API and the bot *)
(* are taken to denote those instants.                                     *)
(***************************************************************************)
EXTENDS Integers, Sequences, FiniteSets

(* ------------------------------ bounds -------------------------------- *)
MaxClock == 4
MaxId == 2

(* -------------------------- program constants ------------------------- *)
\* @tasks.loop(seconds=30): one time unit is 30 s, so a minute is 2 units.
UnitsPerMinute == 2
\* limit = min(limit, 500)
MAX_QUERY_LIMIT == 500
\* the bot asks for /timers/?limit=500
BOT_QUERY_LIMIT == 500
\* make_api_request_with_retry(..., max_retries: int = 3)
MAX_RETRIES == 3
\* user_name: str = Field(..., min_length=1, max_length=100)
MAX_NAME_LENGTH == 100

Minutes(m) == m * UnitsPerMinute
Hours(h) == Minutes(60 * h)
Days(d) == Hours(24 * d)

Ids == 1..MaxId
\* The channels the bot can see when it starts.
Channels == {1}
\* Channel ids that name no channel the bot can see.
StaleChannels == {2}
\* None / unset / 0 for a channel or message id (all falsy in the source).
NoChannel == 0
TimerTypes == {"friendly_hit", "enemy_hit", "pro_whack"}
\* The (timer_type, time_shot) pairs offered to create_timer: a hit whose
\* alert band is [-7, 3] and a whack whose alert band is [2, 12], so that
\* over the clock's range each is inside and outside its band, and both
\* are inside at 2 and 3.
TimerInputs == {<<"friendly_hit", -427>>, <<"pro_whack", -8>>}

\* Optional values: None is the empty set, a value v is {v}.
None == {}
Some(v) == {v}
TheValue(o) == CHOOSE v \in o : TRUE

VARIABLES
    clock,                    \* datetime.now(timezone.utc), in units
    store,                    \* the timers table: id -> [timer_type, time_shot]
    ALERT_CHANNEL_ID,         \* configuration read at import
    dashboard_message_id,
    dashboard_channel_id,
    alerted_timers,
    update_dashboard_running, \* update_dashboard.is_running()
    alert_running,            \* check_pro_drop_alerts.is_running()
    tick_due,                 \* the 30 s interval of the alert loop has elapsed
    pc,                       \* where the current alert tick is
    timers,                   \* local of the tick: the snapshot
    now,                      \* local of the tick: the clock read
    idx,                      \* local of the tick: position in the for loop
    channel,                  \* local of the tick: the channel being sent to
    fetch_status,             \* how the tick's get_timers_from_api ended
    notified,                 \* history: ids with a message delivered since their creation
    last_good,                \* history: the last snapshot a tick fetched with status 200
    faulted,                  \* history: some fetch or some send has failed
    inflight,                 \* history: alert ticks begun and not yet ended
    ready_again,              \* history: on_ready fired with the loops already running
    channels,                 \* Discord: the channels the bot can see
    message_exists,           \* Discord: the message dashboard_message_id names exists
    response,                 \* the answer to the last request an API client made
    cmd                       \* the recording command being handled, or the last one:
                              \*   pc       where it is: "idle", "post" or "sleep"
                              \*   name     the command
                              \*   payload  the JSON body of its POST
                              \*   attempt  the loop variable of make_api_request_with_retry
                              \*   waits    history: its time.sleep calls, in seconds
                              \*   result   what make_api_request_with_retry gave it
                              \*   reply    the message it sent to its channel
                              \*   created  history: the rows its POSTs have stored

vars == <<clock, store, ALERT_CHANNEL_ID, dashboard_message_id,
          dashboard_channel_id, alerted_timers, update_dashboard_running,
          alert_running, tick_due, pc, timers, now, idx, channel, fetch_status,
          notified, last_good, faulted, inflight, ready_again,
          channels, message_exists, cmd, response>>

botVars == <<ALERT_CHANNEL_ID, dashboard_message_id, dashboard_channel_id,
             alerted_timers, update_dashboard_running, alert_running>>
tickVars == <<pc, timers, now, idx, channel, fetch_status>>
histVars == <<notified, last_good, faulted, inflight, ready_again>>
discordVars == <<channels, message_exists>>

\* The synchronous code of a tick (from the fetch's answer to the next await,
\* the only one being await channel.send) takes no time: the clock, the API's
\* clients and the bot's other handlers move only when it is done.
Settled == pc # "eval"

\* requests.get/post/delete and time.sleep are synchronous calls made inside
\* coroutines: while a recording command is in one of them the one thread of
\* the event loop is in it too, and no other coroutine of the bot is resumed.
EventLoopFree == cmd.pc \notin {"post", "sleep"}

(* ------------------------- models.py: windows ------------------------- *)
\* A start that leaves out the 40 minutes of a hit.
calculate_pro_drop_start_WholeHours(timer_type, time_shot) ==
    IF timer_type \in {"friendly_hit", "enemy_hit"} THEN Some(time_shot + Hours(3))
    ELSE IF timer_type = "pro_whack" THEN Some(time_shot + Minutes(15))
    ELSE None

\* A start that takes every other type for a pro_whack.
calculate_pro_drop_start_Default(timer_type, time_shot) ==
    IF timer_type \in {"friendly_hit", "enemy_hit"}
        THEN Some(time_shot + Hours(3) + Minutes(40))
    ELSE Some(time_shot + Minutes(15))

\* TimerResponse.calculate_pro_drop_start
calculate_pro_drop_start(timer_type, time_shot) ==
    IF timer_type = "friendly_hit" THEN Some(time_shot + Hours(3) + Minutes(40))
    ELSE IF timer_type = "enemy_hit" THEN Some(time_shot + Hours(3) + Minutes(40))
    ELSE IF timer_type = "pro_whack" THEN Some(time_shot + Minutes(15))
    ELSE None

\* TimerResponse.calculate_pro_drop_end
calculate_pro_drop_end(timer_type, time_shot) ==
    IF timer_type = "friendly_hit" \/ timer_type = "enemy_hit"
        THEN Some(time_shot + Hours(4) + Minutes(20))
    ELSE IF timer_type = "pro_whack" THEN Some(time_shot + Minutes(15))
    ELSE None

\* The response record built from a row of the table.
TimerResponse(id, row) ==
    [id |-> id,
     timer_type |-> row.timer_type,
     time_shot |-> row.time_shot,
     pro_drop_start |-> calculate_pro_drop_start(row.timer_type, row.time_shot),
     pro_drop_end |-> calculate_pro_drop_end(row.timer_type, row.time_shot)]

(* --------------------------- main.py: the API ------------------------- *)
Min(a, b) == IF a <= b THEN a ELSE b

Max(S) == CHOOSE x \in S : \A y \in S : y <= x

\* The ids of S (positive integers) as a sequence in ascending order (the
\* table scan order).
Ascending(S) ==
    IF S = {} THEN <<>>
    ELSE LET Member(i) == i \in S
         IN SelectSeq([i \in 1..Max(S) |-> i], Member)

\* read_timers: db.query(Timer).offset(skip).limit(min(limit, 500)).all()
\* The query has no ORDER BY: SQLite scans the table in id order.  SQLite
\* takes a negative OFFSET for 0 and a negative LIMIT for no limit.
read_timers(rows, skip, limit) ==
    LET order == Ascending(DOMAIN rows)
        capped == Min(limit, MAX_QUERY_LIMIT)
        first == Min(Len(order), IF skip < 0 THEN 0 ELSE skip)
        last == IF capped < 0 THEN Len(order) ELSE Min(Len(order), first + capped)
    IN [k \in 1..(last - first) |->
            TimerResponse(order[first + k], rows[order[first + k]])]

\* db.add(db_timer); db.commit(): the table with the new row under key id.
db_add(rows, id, timer_type, time_shot) ==
    [i \in DOMAIN rows \cup {id} |->
        IF i = id THEN [timer_type |-> timer_type, time_shot |-> time_shot]
        ELSE rows[i]]

\* id = Column(Integer, primary_key=True) on SQLite: an INTEGER PRIMARY KEY
\* without AUTOINCREMENT, which an INSERT sets to the largest id in the table
\* plus one, and to 1 in an empty table.
next_id(rows) == IF DOMAIN rows = {} THEN 1 ELSE Max(DOMAIN rows) + 1

\* create_timer: the row is added under the primary key the table gives it.
create_timer(timer_type, time_shot) ==
    /\ Settled
    /\ timer_type \in TimerTypes
    /\ LET id == next_id(store)
       IN /\ id \in Ids
          /\ store' = db_add(store, id, timer_type, time_shot)
          /\ notified' = notified \ {id}
    /\ UNCHANGED <<clock, botVars, tick_due, tickVars,
                   last_good, faulted, inflight, ready_again,
                   discordVars, cmd, response>>

\* A delete that has lost its filter: every row goes.
db_delete_All(rows, timer_id) == <<>>

\* db.delete(timer); db.commit(): the table without the row under timer_id.
db_delete(rows, timer_id) == [i \in DOMAIN rows \ {timer_id} |-> rows[i]]

\* delete_timer: 404 for an absent id, else the row is removed.
delete_timer(timer_id) ==
    /\ Settled
    /\ timer_id \in DOMAIN store
    /\ store' = db_delete(store, timer_id)
    /\ notified' = notified \ {timer_id}
    /\ UNCHANGED <<clock, botVars, tick_due, tickVars,
                   last_good, faulted, inflight, ready_again,
                   discordVars, cmd, response>>

(* ------------------------------ the clock ----------------------------- *)
\* One interval of the alert loop passes.
Advance ==
    /\ Settled
    /\ clock < MaxClock
    /\ clock' = clock + 1
    /\ tick_due' = TRUE
    /\ UNCHANGED <<store, botVars, tickVars, histVars, discordVars, cmd, response>>

(* ------------------------- bot.py: the fetch -------------------------- *)
\* How the GET of get_timers_from_api can end: status 200, another status,
\* or an exception (connection error, timeout, bad JSON).
FetchOutcomes == {"ok", "status", "error"}

\* A fetch that falls back on the last list it got.
get_timers_from_api_Cached(outcome) ==
    IF outcome = "ok" THEN read_timers(store, 0, BOT_QUERY_LIMIT) ELSE last_good

\* get_timers_from_api: the list on 200, [] on any other status or error.
get_timers_from_api(outcome) ==
    IF outcome = "ok" THEN read_timers(store, 0, BOT_QUERY_LIMIT) ELSE <<>>

(* ----------------------- bot.py: the periodic loops ------------------- *)
\* The exceptions an awaited Discord call raises: discord.NotFound for a
\* target that is gone, another discord.HTTPException otherwise.
DiscordErrors == {"NotFound", "HTTPException"}

\* isinstance(exc, cls): every class here derives from Exception.
IsInstance(exc, cls) == cls = "Exception" \/ exc = cls

\* A tick whose only handler is for discord.NotFound.
check_pro_drop_alerts_except_NotFound == {"NotFound"}

\* The except clause of check_pro_drop_alerts: except Exception.
check_pro_drop_alerts_except == {"Exception"}

\* The except clauses of update_dashboard: discord.NotFound, then Exception.
update_dashboard_except == {"NotFound", "Exception"}

\* tasks.loop: an iteration whose exception one of its except clauses
\* catches leaves the loop running; an exception that leaves the coroutine
\* ends the loop.
LoopAfterRaise(running, exc, clauses) ==
    running /\ \E cls \in clauses : IsInstance(exc, cls)

(* ---------------------- bot.py: the alert scheduler ------------------- *)
\* A loop that starts an iteration whenever its interval has elapsed.
LoopMayIterate_Always == TRUE

\* tasks.loop runs one iteration at a time: the next iteration starts only
\* after the coroutine of the previous one has returned.
LoopMayIterate == pc = "idle"

\* bot.get_channel: the channel, or None for an id the bot cannot see.
get_channel(channel_id) ==
    IF channel_id \in channels THEN channel_id ELSE NoChannel

\* A choice that prefers the dashboard's channel.
alert_channel_id_DashboardFirst ==
    IF dashboard_channel_id # NoChannel THEN dashboard_channel_id ELSE ALERT_CHANNEL_ID

\* A choice that falls back on a channel of its own.
alert_channel_id_Default ==
    IF ALERT_CHANNEL_ID # NoChannel THEN ALERT_CHANNEL_ID
    ELSE IF dashboard_channel_id # NoChannel THEN dashboard_channel_id
    ELSE CHOOSE ch \in Channels : TRUE

\* ALERT_CHANNEL_ID or dashboard_channel_id
alert_channel_id ==
    IF ALERT_CHANNEL_ID # NoChannel THEN ALERT_CHANNEL_ID ELSE dashboard_channel_id

\* A band that stays open until the Pro Drop itself.
InAlertBand_UntilStart(pro_drop_time, t) ==
    LET time_until == pro_drop_time - t
    IN 0 <= time_until /\ time_until <= Minutes(10)

\* timedelta(minutes=5) <= time_until <= timedelta(minutes=10)
InAlertBand(pro_drop_time, t) ==
    LET time_until == pro_drop_time - t
    IN Minutes(5) <= time_until /\ time_until <= Minutes(10)

\* The loop body without its test of the band.
ReachesSend_NoBand(timer) ==
    /\ timer.id \notin alerted_timers
    /\ timer.pro_drop_start # None
    /\ alert_channel_id # NoChannel
    /\ get_channel(alert_channel_id) # NoChannel
    /\ timer.timer_type \in {"friendly_hit", "pro_whack", "enemy_hit"}

\* The loop body without its "already alerted" test.
ReachesSend_NoDedup(timer) ==
    /\ timer.pro_drop_start # None
    /\ InAlertBand(TheValue(timer.pro_drop_start), now)
    /\ alert_channel_id # NoChannel
    /\ get_channel(alert_channel_id) # NoChannel
    /\ timer.timer_type \in {"friendly_hit", "pro_whack", "enemy_hit"}

\* The body of the for loop up to the send: TRUE when the loop reaches
\* await channel.send for this timer, FALSE when it goes on to the next.
ReachesSend(timer) ==
    /\ timer.id \notin alerted_timers
    /\ timer.pro_drop_start # None
    /\ InAlertBand(TheValue(timer.pro_drop_start), now)
    /\ alert_channel_id # NoChannel
    /\ get_channel(alert_channel_id) # NoChannel
    /\ timer.timer_type \in {"friendly_hit", "pro_whack", "enemy_hit"}

\* The first position from `from` on at which the loop sends, 0 if none.
NextToSend(from) ==
    LET hits == {j \in from..Len(timers) : ReachesSend(timers[j])}
    IN IF hits = {} THEN 0 ELSE CHOOSE j \in hits : \A k \in hits : j <= k

\* The ids in the table when the loop ends.
current_timer_ids_Live == DOMAIN store

\* current_timer_ids = {t['id'] for t in timers}
current_timer_ids == {timers[j].id : j \in 1..Len(timers)}

\* A prune that drops every id.
Prune_Clear(alerted, live) == {}

\* A prune that drops nothing.
Prune_Keep(alerted, live) == alerted

\* alerted_timers = alerted_timers & current_timer_ids
Prune(alerted, live) == alerted \cap live

\* A send that does not record the id.
MarkAlerted_Forget(alerted, timer_id) == alerted

\* alerted_timers.add(timer_id)
MarkAlerted(alerted, timer_id) == alerted \cup {timer_id}

\* The locals of a tick that is not running.
TickReturns ==
    /\ pc' = "idle"
    /\ timers' = <<>>
    /\ now' = 0
    /\ idx' = 0
    /\ channel' = NoChannel
    /\ fetch_status' = "none"
    /\ inflight' = inflight - 1

\* A tick begins: timers = get_timers_from_api(); now = datetime.now(utc).
check_pro_drop_alerts_begin ==
    /\ EventLoopFree
    /\ alert_running
    /\ tick_due
    /\ LoopMayIterate
    /\ \E outcome \in FetchOutcomes :
        /\ timers' = get_timers_from_api(outcome)
        /\ fetch_status' = outcome
        /\ last_good' = IF outcome = "ok" THEN timers' ELSE last_good
        /\ faulted' = (faulted \/ outcome # "ok")
    /\ now' = clock
    /\ idx' = 1
    /\ pc' = "eval"
    /\ tick_due' = FALSE
    /\ inflight' = inflight + 1
    /\ UNCHANGED <<clock, store, botVars, channel, notified, ready_again,
                   discordVars, cmd, response>>

\* The for loop runs on to its next send, or to its end and the prune.
check_pro_drop_alerts_eval ==
    /\ pc = "eval"
    /\ LET j == NextToSend(idx)
       IN IF j # 0
          THEN /\ pc' = "send"
               /\ idx' = j
               /\ channel' = get_channel(alert_channel_id)
               /\ UNCHANGED <<alerted_timers, timers, now, fetch_status, inflight>>
          ELSE /\ alerted_timers' = Prune(alerted_timers, current_timer_ids)
               /\ TickReturns
    /\ UNCHANGED <<clock, store, ALERT_CHANNEL_ID, dashboard_message_id,
                   dashboard_channel_id, update_dashboard_running, alert_running,
                   tick_due, notified, last_good, faulted, ready_again,
                   discordVars, cmd, response>>

\* await channel.send(alert_msg) returns: alerted_timers.add(timer_id).
\* The local channel stays bound to the channel that was sent to.
channel_send_ok ==
    /\ EventLoopFree
    /\ pc = "send"
    /\ channel \in channels
    /\ notified' = notified \cup {timers[idx].id}
    /\ alerted_timers' = MarkAlerted(alerted_timers, timers[idx].id)
    /\ idx' = idx + 1
    /\ pc' = "eval"
    /\ UNCHANGED <<clock, store, ALERT_CHANNEL_ID, dashboard_message_id,
                   dashboard_channel_id, update_dashboard_running, alert_running,
                   tick_due, timers, now, channel, fetch_status, last_good,
                   faulted, inflight, ready_again, discordVars, cmd, response>>

\* await channel.send(alert_msg) raises: the except clause of the tick logs
\* it and the tick returns.
channel_send_error ==
    /\ EventLoopFree
    /\ pc = "send"
    /\ \E exc \in DiscordErrors :
        alert_running' = LoopAfterRaise(alert_running, exc, check_pro_drop_alerts_except)
    /\ faulted' = TRUE
    /\ TickReturns
    /\ UNCHANGED <<clock, store, ALERT_CHANNEL_ID, dashboard_message_id,
                   dashboard_channel_id, alerted_timers, update_dashboard_running,
                   tick_due, notified, last_good, ready_again,
                   discordVars, cmd, response>>

(* ---------------------- bot.py: the dashboard loop -------------------- *)
\* How a tick of update_dashboard can go, from the ids it reads and from
\* what Discord holds:
\*   "return"        an id is unset: the tick returns at once;
\*   "no_channel"    bot.get_channel gives None: a warning, and the tick returns;
\*   "NotFound"      fetch_message or message.edit raises discord.NotFound;
\*   "HTTPException" fetch_message or message.edit raises another error;
\*   "edited"        the message is fetched, the timers are fetched ([] if the
\*                   fetch fails) and the message is edited.
update_dashboard_outcomes ==
    IF dashboard_channel_id = NoChannel \/ dashboard_message_id = NoChannel
        THEN {"return"}
    ELSE IF get_channel(dashboard_channel_id) = NoChannel THEN {"no_channel"}
    ELSE IF ~message_exists THEN {"NotFound", "HTTPException"}
    ELSE {"edited", "HTTPException"}

\* A handler of discord.NotFound that forgets the message only.
NotFoundReset_MessageOnly == <<NoChannel, dashboard_channel_id>>

\* except discord.NotFound: dashboard_message_id = None; dashboard_channel_id = None
NotFoundReset == <<NoChannel, NoChannel>>

\* One tick of update_dashboard.
update_dashboard ==
    /\ Settled
    /\ EventLoopFree
    /\ update_dashboard_running
    /\ \E outcome \in update_dashboard_outcomes :
        /\ IF outcome = "NotFound" /\ "NotFound" \in update_dashboard_except
              THEN /\ dashboard_message_id' = NotFoundReset[1]
                   /\ dashboard_channel_id' = NotFoundReset[2]
              ELSE UNCHANGED <<dashboard_message_id, dashboard_channel_id>>
        /\ update_dashboard_running' =
              IF outcome \in DiscordErrors
                  THEN LoopAfterRaise(update_dashboard_running, outcome,
                                      update_dashboard_except)
                  ELSE update_dashboard_running
    /\ UNCHANGED <<clock, store, ALERT_CHANNEL_ID, alerted_timers, alert_running,
                   tick_due, tickVars, histVars, discordVars, cmd, response>>

(* --------------------------- Discord's side --------------------------- *)
\* The dashboard message is deleted by a user.
message_deleted ==
    /\ Settled
    /\ dashboard_message_id # NoChannel
    /\ message_exists
    /\ message_exists' = FALSE
    /\ UNCHANGED <<clock, store, botVars, tick_due, tickVars, histVars,
                   channels, cmd, response>>

\* Channel ch is deleted, and the messages in it with it.
channel_deleted(ch) ==
    /\ Settled
    /\ ch \in channels
    /\ channels' = channels \ {ch}
    /\ message_exists' = (message_exists /\ dashboard_channel_id # ch)
    /\ UNCHANGED <<clock, store, botVars, tick_due, tickVars, histVars, cmd, response>>

(* ------------------------ bot.py: other handlers ---------------------- *)
\* on_ready: start each loop unless it is running.
on_ready ==
    /\ Settled
    /\ EventLoopFree
    /\ update_dashboard_running' =
           IF ~update_dashboard_running THEN TRUE ELSE update_dashboard_running
    /\ alert_running' = IF ~alert_running THEN TRUE ELSE alert_running
    /\ ready_again' = (ready_again \/ alert_running)
    /\ UNCHANGED <<clock, store, ALERT_CHANNEL_ID, dashboard_message_id,
                   dashboard_channel_id, alerted_timers, tick_due, tickVars,
                   notified, last_good, faulted, inflight,
                   discordVars, cmd, response>>

\* Message ids given to a dashboard message.
MessageIds == {1}

\* setup_dashboard in channel ch: the message is posted and its place stored,
\* or ctx.send raises and nothing is stored.
setup_dashboard(ch) ==
    /\ Settled
    /\ EventLoopFree
    /\ ch \in channels
    /\ \/ /\ dashboard_message_id' \in MessageIds
          /\ dashboard_channel_id' = ch
          /\ message_exists' = TRUE
       \/ UNCHANGED <<dashboard_message_id, dashboard_channel_id, message_exists>>
    /\ UNCHANGED <<clock, store, ALERT_CHANNEL_ID, alerted_timers,
                   update_dashboard_running, alert_running, tick_due, tickVars,
                   histVars, channels, cmd, response>>

\* A clear_timers that also forgets the alerts of the timers it deletes.
clear_timers_Forget ==
    /\ Settled
    /\ EventLoopFree
    /\ \E outcome \in FetchOutcomes :
        LET listed == get_timers_from_api(outcome)
            ids == {listed[j].id : j \in 1..Len(listed)}
        IN \E deleted \in SUBSET ids :
            /\ store' = [i \in DOMAIN store \ deleted |-> store[i]]
            /\ notified' = notified \ deleted
            /\ alerted_timers' = alerted_timers \ deleted
    /\ UNCHANGED <<clock, ALERT_CHANNEL_ID, dashboard_message_id,
                   dashboard_channel_id, update_dashboard_running, alert_running,
                   tick_due, tickVars, last_good, faulted, inflight, ready_again,
                   discordVars, cmd, response>>

\* clear_timers: fetch the list and DELETE each timer of it; a DELETE that
\* fails or does not answer 200 leaves its timer in place.
clear_timers ==
    /\ Settled
    /\ EventLoopFree
    /\ \E outcome \in FetchOutcomes :
        LET listed == get_timers_from_api(outcome)
            ids == {listed[j].id : j \in 1..Len(listed)}
        IN \E deleted \in SUBSET ids :
            /\ store' = [i \in DOMAIN store \ deleted |-> store[i]]
            /\ notified' = notified \ deleted
    /\ UNCHANGED <<clock, botVars, tick_due, tickVars,
                   last_good, faulted, inflight, ready_again,
                   discordVars, cmd, response>>

(* -------------------- bot.py: the recording commands ------------------ *)
\* No recording command has been invoked.
NoCommand ==
    [pc |-> "idle", name |-> "none", payload |-> None, attempt |-> 0,
     waits |-> <<>>, result |-> "none", reply |-> "none", created |-> 0]

\* The times of day given to the commands, in units after 00:00:00.
TimesOfDay == {0, 1}

\* The time_str arguments: HH:MM:SS for a time of day, or text that
\* datetime.strptime rejects (None).
TimeStrings == {Some(t) : t \in TimesOfDay} \cup {None}

\* A time that is always dated today.
time_shot_Today(t, time_of_day) == (t - (t % Days(1))) + time_of_day

\* now.replace(hour=..., minute=..., second=..., microsecond=0), a day
\* earlier if that is after now.
time_shot(t, time_of_day) ==
    LET today == (t - (t % Days(1))) + time_of_day
    IN IF today > t THEN today - Days(1) ELSE today

\* wait_time = 2 ** attempt
wait_time(a) == 2 ^ a

\* How one requests.post ends: with a response, named by its status class,
\* or with an exception.
StatusResults == {"200", "4xx", "5xx"}
PostResults == StatusResults \cup {"ConnectionError", "Timeout", "RequestException"}

\* What one POST /timers/ does: the API stores the row and answers 200;
\* or it stores nothing and answers another status, or the request fails;
\* or it stores the row and the answer does not reach the bot; or
\* create_timer's db.commit() stores the row and the db.refresh() after it
\* raises, which the except clauses (a rollback with nothing left to undo)
\* answer with status 500.
PostOutcomes ==
    {[stored |-> TRUE, result |-> "200"]}
    \cup {[stored |-> FALSE, result |-> r] : r \in PostResults \ {"200"}}
    \cup {[stored |-> TRUE, result |-> r] : r \in {"ConnectionError", "Timeout"}}
    \cup {[stored |-> TRUE, result |-> "5xx"]}

\* response = requests.post(...); return response: whatever its status.
IsResponse(r) == r \in StatusResults

\* except (requests.ConnectionError, requests.Timeout)
Retryable(r) == r \in {"ConnectionError", "Timeout"}

\* datetime.strptime raises ValueError: "Invalid time format".
invalid_time(name) ==
    /\ Settled
    /\ EventLoopFree
    /\ cmd' = [NoCommand EXCEPT !.name = name, !.reply = "invalid_time"]
    /\ UNCHANGED <<clock, store, botVars, tick_due, tickVars, histVars, discordVars, response>>

\* The body the six commands share: the payload is built and
\* make_api_request_with_retry makes its first requests.post.
record_timer(name, timer_type, ts) ==
    /\ Settled
    /\ EventLoopFree
    /\ cmd' = [NoCommand EXCEPT !.pc = "post", !.name = name,
                 !.payload = Some([timer_type |-> timer_type, time_shot |-> ts])]
    /\ UNCHANGED <<clock, store, botVars, tick_due, tickVars, histVars, discordVars, response>>

im_hit(time_str) ==
    IF time_str = None THEN invalid_time("im_hit")
    ELSE record_timer("im_hit", "friendly_hit", time_shot(clock, TheValue(time_str)))

pro_whack(time_str) ==
    IF time_str = None THEN invalid_time("pro_whack")
    ELSE record_timer("pro_whack", "pro_whack", time_shot(clock, TheValue(time_str)))

enemy_hit(time_str) ==
    IF time_str = None THEN invalid_time("enemy_hit")
    ELSE record_timer("enemy_hit", "enemy_hit", time_shot(clock, TheValue(time_str)))

whacked == record_timer("whacked", "pro_whack", clock)

hit == record_timer("hit", "friendly_hit", clock)

enemy == record_timer("enemy", "enemy_hit", clock)

\* One requests.post of make_api_request_with_retry ends, and the code runs
\* on to the next blocking call or to the end of the command:
\*   a response is returned to the command, which replies by its status;
\*   a ConnectionError or Timeout before the last attempt: time.sleep(wait_time);
\*   another exception, or the last attempt's: raised to the command, whose
\*   except requests.RequestException clause replies.
requests_post(outcome) ==
    /\ cmd.pc = "post"
    /\ outcome \in PostOutcomes
    /\ IF outcome.stored
          THEN LET id == next_id(store)
               IN /\ id \in Ids
                  /\ store' = db_add(store, id, TheValue(cmd.payload).timer_type,
                                     TheValue(cmd.payload).time_shot)
                  /\ notified' = notified \ {id}
          ELSE UNCHANGED <<store, notified, response>>
    /\ LET r == outcome.result
           n == cmd.created + (IF outcome.stored THEN 1 ELSE 0)
       IN cmd' =
            IF IsResponse(r)
                THEN [cmd EXCEPT !.pc = "idle", !.result = r, !.created = n,
                         !.reply = IF r = "200" THEN "recorded" ELSE "api_error"]
            ELSE IF Retryable(r) /\ cmd.attempt < MAX_RETRIES - 1
                THEN [cmd EXCEPT !.pc = "sleep", !.created = n,
                         !.waits = Append(cmd.waits, wait_time(cmd.attempt))]
            ELSE [cmd EXCEPT !.pc = "idle", !.result = r, !.created = n,
                     !.reply = "connect_failed"]
    /\ UNCHANGED <<clock, botVars, tick_due, tickVars, last_good, faulted,
                   inflight, ready_again, discordVars, response>>

\* time.sleep(wait_time) returns: the for loop makes its next attempt.
time_sleep ==
    /\ cmd.pc = "sleep"
    /\ cmd' = [cmd EXCEPT !.pc = "post", !.attempt = cmd.attempt + 1]
    /\ UNCHANGED <<clock, store, botVars, tick_due, tickVars, histVars, discordVars, response>>

(* ------------------------ the API seen by a client ------------------- *)
\* No request has been answered.
NoResponse ==
    [op |-> "none", status |-> "none", args |-> <<>>, attempts |-> 0, body |-> <<>>]

\* The skip and limit values given to GET /timers/ (both are plain ints).
ReadSkips == {-1, 0, 1}
ReadLimits == {-1, 0, 1, 2, MAX_QUERY_LIMIT, MAX_QUERY_LIMIT + 1}

\* GET /timers/?skip=..&limit=..: the list with status 200, or status 500
\* when the query raises.
read_timers_request(skip, limit, db_ok) ==
    /\ Settled
    /\ response' = IF db_ok
                      THEN [op |-> "read_timers", status |-> "200",
                            args |-> <<skip, limit>>, attempts |-> 1,
                            body |-> read_timers(store, skip, limit)]
                      ELSE [op |-> "read_timers", status |-> "500",
                            args |-> <<skip, limit>>, attempts |-> 1, body |-> <<>>]
    /\ UNCHANGED <<clock, store, botVars, tick_due, tickVars, histVars,
                   discordVars, cmd>>

\* DELETE /timers/{timer_id}: 404 for an absent id; else the row is deleted
\* and the answer is 200; a database error is rolled back and answered 500.
delete_timer_request(timer_id, db_ok) ==
    /\ Settled
    /\ IF ~db_ok
          THEN /\ response' = [op |-> "delete_timer", status |-> "500",
                               args |-> <<timer_id>>, attempts |-> 1, body |-> <<>>]
               /\ UNCHANGED <<store, notified>>
       ELSE IF timer_id \notin DOMAIN store
          THEN /\ response' = [op |-> "delete_timer", status |-> "404",
                               args |-> <<timer_id>>, attempts |-> 1, body |-> <<>>]
               /\ UNCHANGED <<store, notified>>
       ELSE /\ response' = [op |-> "delete_timer", status |-> "200",
                            args |-> <<timer_id>>, attempts |-> 1, body |-> <<>>]
            /\ store' = db_delete(store, timer_id)
            /\ notified' = notified \ {timer_id}
    /\ UNCHANGED <<clock, botVars, tick_due, tickVars, last_good, faulted,
                   inflight, ready_again, discordVars, cmd>>

\* One call of get_timers_from_api, as both loops make it: one requests.get,
\* in no loop, whose failure is answered by an empty list at once.
get_timers_from_api_call(outcome) ==
    /\ Settled
    /\ outcome \in FetchOutcomes
    /\ response' = [op |-> "get_timers_from_api", status |-> outcome,
                    args |-> <<0, BOT_QUERY_LIMIT>>, attempts |-> 1,
                    body |-> get_timers_from_api(outcome)]
    /\ UNCHANGED <<clock, store, botVars, tick_due, tickVars, histVars,
                   discordVars, cmd>>

(* ------------- models.py and main.py: the bodies of requests ---------- *)
\* In this part the table is written with its three columns, each of them
\* nullable (Column(String), Column(DateTime)): a column holds None or
\* Some(value), and a text is a sequence of characters.
Repeat(c, n) == [i \in 1..n |-> c]

\* str.strip(): the text without its leading and trailing whitespace.
strip(v) ==
    LET inked == {i \in 1..Len(v) : v[i] # " "}
    IN IF inked = {} THEN <<>>
       ELSE SubSeq(v, CHOOSE i \in inked : \A j \in inked : i <= j, Max(inked))

\* A field of a JSON body: left out, null, a value of the field's type, or
\* a value that is not of its type.
Unset(dummy) == [kind |-> "unset", value |-> dummy]
Null(dummy) == [kind |-> "null", value |-> dummy]
Value(v) == [kind |-> "value", value |-> v]
Invalid(dummy) == [kind |-> "invalid", value |-> dummy]

\* The user_name texts sent: empty, blank, a padded name, and names of 100
\* and of 101 characters.
UserNames ==
    {<<>>, <<" ">>, <<" ", "a", " ">>,
     Repeat("a", MAX_NAME_LENGTH), Repeat("a", MAX_NAME_LENGTH + 1)}

NameFields == {Unset(<<>>), Null(<<>>)} \cup {Value(v) : v \in UserNames}
TypeFields ==
    {Unset(""), Null(""), Invalid("")} \cup {Value(t) : t \in {"friendly_hit", "pro_whack"}}
TimeFields == {Unset(0), Null(0), Invalid(0), Value(-427)}
Bodies == [user_name : NameFields, timer_type : TypeFields, time_shot : TimeFields]

\* Field(min_length=1, max_length=100), then validate_user_name: a text of
\* 1 to 100 characters that is not blank.
ValidName(v) == Len(v) >= 1 /\ Len(v) <= MAX_NAME_LENGTH /\ strip(v) # <<>>

\* TimerCreate: every field is required and of its type; the user_name is
\* stored stripped.
TimerCreate_valid(body) ==
    /\ body.user_name.kind = "value" /\ ValidName(body.user_name.value)
    /\ body.timer_type.kind = "value" /\ body.timer_type.value \in TimerTypes
    /\ body.time_shot.kind = "value"

TimerCreate(body) ==
    [user_name |-> Some(strip(body.user_name.value)),
     timer_type |-> Some(body.timer_type.value),
     time_shot |-> Some(body.time_shot.value)]

\* TimerUpdate: every field is Optional with default None: it may be left
\* out or null, and a value given is validated as in TimerCreate.
TimerUpdate_valid(body) ==
    /\ body.user_name.kind = "value" => ValidName(body.user_name.value)
    /\ body.timer_type.kind # "invalid"
    /\ body.time_shot.kind # "invalid"

\* for field, value in timer_update.dict(exclude_unset=True).items():
\*     setattr(timer, field, value)
\* A field that was sent, null included, is set; one left out is kept.
setattr_all(row, body) ==
    [user_name |-> IF body.user_name.kind = "unset" THEN row.user_name
                   ELSE IF body.user_name.kind = "null" THEN None
                   ELSE Some(strip(body.user_name.value)),
     timer_type |-> IF body.timer_type.kind = "unset" THEN row.timer_type
                    ELSE IF body.timer_type.kind = "null" THEN None
                    ELSE Some(body.timer_type.value),
     time_shot |-> IF body.time_shot.kind = "unset" THEN row.time_shot
                   ELSE IF body.time_shot.kind = "null" THEN None
                   ELSE Some(body.time_shot.value)]

\* response_model=TimerResponse: user_name: str, timer_type: str and
\* time_shot: datetime are required of the row that is returned.
TimerResponse_valid(row) ==
    row.user_name # None /\ row.timer_type # None /\ row.time_shot # None

Answer(op, status, timer_id) ==
    [op |-> op, status |-> status, args |-> <<timer_id>>, attempts |-> 1, body |-> <<>>]

\* POST /timers/ with any body: 422 for a body TimerCreate rejects; else the
\* row is stored and answered 200; a database error is answered 500.
create_timer_request(body, db_ok) ==
    /\ Settled
    /\ IF ~TimerCreate_valid(body)
          THEN /\ response' = Answer("create_timer", "422", 0)
               /\ UNCHANGED store
       ELSE IF ~db_ok
          THEN /\ response' = Answer("create_timer", "500", 0)
               /\ UNCHANGED store
       ELSE LET id == next_id(store)
            IN /\ id \in Ids
               /\ store' = [i \in DOMAIN store \cup {id} |->
                               IF i = id THEN TimerCreate(body) ELSE store[i]]
               /\ response' = Answer("create_timer", "200", id)
    /\ UNCHANGED <<clock, botVars, tick_due, tickVars, histVars, discordVars, cmd>>

\* PUT /timers/{timer_id} with any body: 422 for a body TimerUpdate rejects,
\* 404 for an absent id, 500 for a database error; else the fields sent are
\* set and committed, and the row is returned: 200, or 500 when the row
\* committed is not a TimerResponse.
update_timer_request(timer_id, body, db_ok) ==
    /\ Settled
    /\ IF ~TimerUpdate_valid(body)
          THEN /\ response' = Answer("update_timer", "422", timer_id)
               /\ UNCHANGED store
       ELSE IF ~db_ok
          THEN /\ response' = Answer("update_timer", "500", timer_id)
               /\ UNCHANGED store
       ELSE IF timer_id \notin DOMAIN store
          THEN /\ response' = Answer("update_timer", "404", timer_id)
               /\ UNCHANGED store
       ELSE LET row == setattr_all(store[timer_id], body)
            IN /\ store' = [store EXCEPT ![timer_id] = row]
               /\ response' = Answer("update_timer",
                                      IF TimerResponse_valid(row) THEN "200" ELSE "500",
                                      timer_id)
    /\ UNCHANGED <<clock, botVars, tick_due, tickVars, histVars, discordVars, cmd>>

(* --------------------------- the specification ------------------------ *)

Init ==
    /\ clock = 0
    /\ store = <<>>
    /\ ALERT_CHANNEL_ID \in {NoChannel} \cup Channels \cup StaleChannels
    /\ dashboard_message_id = NoChannel
    /\ dashboard_channel_id = NoChannel
    /\ alerted_timers = {}
    /\ update_dashboard_running = FALSE
    /\ alert_running = FALSE
    /\ tick_due = TRUE
    /\ pc = "idle"
    /\ timers = <<>>
    /\ now = 0
    /\ idx = 0
    /\ channel = NoChannel
    /\ fetch_status = "none"
    /\ notified = {}
    /\ last_good = <<>>
    /\ faulted = FALSE
    /\ inflight = 0
    /\ ready_again = FALSE
    /\ channels = Channels
    /\ message_exists = FALSE
    /\ cmd = NoCommand
    /\ response = NoResponse

Next ==
    \/ Advance
    \/ \E input \in TimerInputs : create_timer(input[1], input[2])
    \/ \E id \in Ids : delete_timer(id)
    \/ on_ready
    \/ \E ch \in Channels : setup_dashboard(ch)
    \/ clear_timers
    \/ check_pro_drop_alerts_begin
    \/ check_pro_drop_alerts_eval
    \/ channel_send_ok
    \/ channel_send_error
    \/ update_dashboard

\* The bot and its store while Discord keeps the bot's channels and messages.
Spec == Init /\ [][Next]_vars

\* A state the bot can be in when a command arrives: no id or every id
\* alerted, the table empty or holding a hit.
CommandInit ==
    /\ clock = 0
    /\ store \in {<<>>, db_add(<<>>, 1, "friendly_hit", -427)}
    /\ ALERT_CHANNEL_ID = NoChannel
    /\ dashboard_message_id = NoChannel
    /\ dashboard_channel_id = NoChannel
    /\ alerted_timers \in {{}, Ids}
    /\ update_dashboard_running = FALSE
    /\ alert_running = FALSE
    /\ tick_due = TRUE
    /\ pc = "idle"
    /\ timers = <<>>
    /\ now = 0
    /\ idx = 0
    /\ channel = NoChannel
    /\ fetch_status = "none"
    /\ notified = alerted_timers \cap DOMAIN store
    /\ last_good = <<>>
    /\ faulted = FALSE
    /\ inflight = 0
    /\ ready_again = FALSE
    /\ channels = Channels
    /\ message_exists = FALSE
    /\ cmd = NoCommand
    /\ response = NoResponse

CommandNext ==
    \/ \E time_str \in TimeStrings : im_hit(time_str)
    \/ \E time_str \in TimeStrings : pro_whack(time_str)
    \/ \E time_str \in TimeStrings : enemy_hit(time_str)
    \/ whacked
    \/ hit
    \/ enemy
    \/ \E outcome \in PostOutcomes : requests_post(outcome)
    \/ time_sleep
    \/ on_ready
    \/ \E ch \in Channels : setup_dashboard(ch)
    \/ clear_timers
    \/ update_dashboard

\* The bot's command handlers and dashboard loop, from any such state.
CommandSpec == CommandInit /\ [][CommandNext]_vars

\* The timers offered to create_timer in DashboardSpec.
DashboardTimerInputs == {<<"friendly_hit", -427>>}

DashboardNext ==
    \/ Advance
    \/ \E input \in DashboardTimerInputs : create_timer(input[1], input[2])
    \/ \E id \in Ids : delete_timer(id)
    \/ on_ready
    \/ \E ch \in Channels : setup_dashboard(ch)
    \/ clear_timers
    \/ check_pro_drop_alerts_begin
    \/ check_pro_drop_alerts_eval
    \/ channel_send_ok
    \/ channel_send_error
    \/ update_dashboard
    \/ message_deleted
    \/ \E ch \in Channels : channel_deleted(ch)

\* The bot and its store while users may delete the dashboard message and
\* the bot's channels.
DashboardSpec == Init /\ [][DashboardNext]_vars

\* The times of the timers offered to create_timer in ApiSpec.
ApiTimes == {-427, -8}

\* A table that holds one row more than a list may return.
FullTable ==
    [id \in 1..(MAX_QUERY_LIMIT + 1) |-> [timer_type |-> "friendly_hit", time_shot |-> -427]]

\* The API is started on an empty table or on a full one; the bot is not
\* running.
ApiInit ==
    /\ clock = 0
    /\ store \in {<<>>, FullTable}
    /\ ALERT_CHANNEL_ID = NoChannel
    /\ dashboard_message_id = NoChannel
    /\ dashboard_channel_id = NoChannel
    /\ alerted_timers = {}
    /\ update_dashboard_running = FALSE
    /\ alert_running = FALSE
    /\ tick_due = TRUE
    /\ pc = "idle"
    /\ timers = <<>>
    /\ now = 0
    /\ idx = 0
    /\ channel = NoChannel
    /\ fetch_status = "none"
    /\ notified = {}
    /\ last_good = <<>>
    /\ faulted = FALSE
    /\ inflight = 0
    /\ ready_again = FALSE
    /\ channels = Channels
    /\ message_exists = FALSE
    /\ cmd = NoCommand
    /\ response = NoResponse

ApiNext ==
    \/ \E timer_type \in TimerTypes, ts \in ApiTimes : create_timer(timer_type, ts)
    \/ \E skip \in ReadSkips, limit \in ReadLimits, db_ok \in BOOLEAN :
            read_timers_request(skip, limit, db_ok)
    \/ \E id \in Ids, db_ok \in BOOLEAN : delete_timer_request(id, db_ok)
    \/ \E outcome \in FetchOutcomes : get_timers_from_api_call(outcome)

\* The API and its clients, without the bot's loops.
ApiSpec == ApiInit /\ [][ApiNext]_vars

\* timer_type = Column(String): a row written to war_timer.db by another
\* hand than create_timer may carry any text.
UnknownType == "unknown"

\* The bot and the API are started on a table that holds one row of a type
\* outside the enumeration, at the time of the hits create_timer is offered.
UnknownTypeInit ==
    /\ clock = 0
    /\ store = db_add(<<>>, 1, UnknownType, -427)
    /\ ALERT_CHANNEL_ID \in Channels
    /\ dashboard_message_id = NoChannel
    /\ dashboard_channel_id = NoChannel
    /\ alerted_timers = {}
    /\ update_dashboard_running = FALSE
    /\ alert_running = FALSE
    /\ tick_due = TRUE
    /\ pc = "idle"
    /\ timers = <<>>
    /\ now = 0
    /\ idx = 0
    /\ channel = NoChannel
    /\ fetch_status = "none"
    /\ notified = {}
    /\ last_good = <<>>
    /\ faulted = FALSE
    /\ inflight = 0
    /\ ready_again = FALSE
    /\ channels = Channels
    /\ message_exists = FALSE
    /\ cmd = NoCommand
    /\ response = NoResponse

UnknownTypeNext ==
    \/ Advance
    \/ \E input \in DashboardTimerInputs : create_timer(input[1], input[2])
    \/ \E id \in Ids : delete_timer(id)
    \/ on_ready
    \/ check_pro_drop_alerts_begin
    \/ check_pro_drop_alerts_eval
    \/ channel_send_ok
    \/ channel_send_error

\* The alert scheduler over a table with a row of an unknown type.
UnknownTypeSpec == UnknownTypeInit /\ [][UnknownTypeNext]_vars

\* The times of day given to the commands in RolloverSpec: midnight, one
\* minute past it and the last half minute of the day.
RolloverTimesOfDay == {0, Minutes(1), Days(1) - 1}

\* The bot is started at a midnight or half a minute before the next one.
RolloverClocks == {0, Days(2) - 1}

\* The answers of the API in RolloverSpec: every request is answered.
RolloverPostOutcomes == {outcome \in PostOutcomes : IsResponse(outcome.result)}

RolloverInit ==
    /\ clock \in RolloverClocks
    /\ store = <<>>
    /\ ALERT_CHANNEL_ID = NoChannel
    /\ dashboard_message_id = NoChannel
    /\ dashboard_channel_id = NoChannel
    /\ alerted_timers = {}
    /\ update_dashboard_running = FALSE
    /\ alert_running = FALSE
    /\ tick_due = TRUE
    /\ pc = "idle"
    /\ timers = <<>>
    /\ now = 0
    /\ idx = 0
    /\ channel = NoChannel
    /\ fetch_status = "none"
    /\ notified = {}
    /\ last_good = <<>>
    /\ faulted = FALSE
    /\ inflight = 0
    /\ ready_again = FALSE
    /\ channels = Channels
    /\ message_exists = FALSE
    /\ cmd = NoCommand
    /\ response = NoResponse

RolloverNext ==
    \/ Advance
    \/ \E tod \in RolloverTimesOfDay : im_hit(Some(tod))
    \/ \E tod \in RolloverTimesOfDay : pro_whack(Some(tod))
    \/ \E tod \in RolloverTimesOfDay : enemy_hit(Some(tod))
    \/ \E outcome \in RolloverPostOutcomes : requests_post(outcome)

\* The commands that take a time of day, as the clock moves on.
RolloverSpec == RolloverInit /\ [][RolloverNext]_vars

\* @tasks.loop(seconds=30) with its iterations on time: once the loop is
\* running, an interval ends only after the iteration due in it has begun.
OnTimeAdvance ==
    /\ alert_running => ~tick_due
    /\ Advance

\* The intervals after the last instant the clock of the model tells apart:
\* they go on ending, one iteration each, and the clock reads the same.
OnTimeBeyond ==
    /\ Settled
    /\ clock = MaxClock
    /\ alert_running => ~tick_due
    /\ tick_due' = TRUE
    /\ UNCHANGED <<clock, store, botVars, tickVars, histVars, discordVars, cmd, response>>

OnTimeNext ==
    \/ OnTimeAdvance
    \/ OnTimeBeyond
    \/ \E input \in TimerInputs : create_timer(input[1], input[2])
    \/ \E id \in Ids : delete_timer(id)
    \/ on_ready
    \/ \E ch \in Channels : setup_dashboard(ch)
    \/ clear_timers
    \/ check_pro_drop_alerts_begin
    \/ check_pro_drop_alerts_eval
    \/ channel_send_ok
    \/ channel_send_error
    \/ update_dashboard

\* The bot and its store with the event loop running what is ready: an
\* iteration that is due begins, the loop of a tick goes on to its next
\* send or to its end, an awaited send ends, and time passes.
OnTimeSpec ==
    /\ Init
    /\ [][OnTimeNext]_vars
    /\ WF_vars(OnTimeAdvance \/ OnTimeBeyond)
    /\ WF_vars(check_pro_drop_alerts_begin)
    /\ WF_vars(check_pro_drop_alerts_eval)
    /\ WF_vars(channel_send_ok \/ channel_send_error)

\* A second channel the bot can see.
TwoChannels == Channels \cup {3}

\* The bot in a guild with two channels, ALERT_CHANNEL_ID unset or set.
TwoChannelInit ==
    /\ clock = 0
    /\ store = <<>>
    /\ ALERT_CHANNEL_ID \in {NoChannel} \cup Channels
    /\ dashboard_message_id = NoChannel
    /\ dashboard_channel_id = NoChannel
    /\ alerted_timers = {}
    /\ update_dashboard_running = FALSE
    /\ alert_running = FALSE
    /\ tick_due = TRUE
    /\ pc = "idle"
    /\ timers = <<>>
    /\ now = 0
    /\ idx = 0
    /\ channel = NoChannel
    /\ fetch_status = "none"
    /\ notified = {}
    /\ last_good = <<>>
    /\ faulted = FALSE
    /\ inflight = 0
    /\ ready_again = FALSE
    /\ channels = TwoChannels
    /\ message_exists = FALSE
    /\ cmd = NoCommand
    /\ response = NoResponse

TwoChannelNext ==
    \/ Advance
    \/ \E input \in TimerInputs : create_timer(input[1], input[2])
    \/ on_ready
    \/ \E ch \in TwoChannels : setup_dashboard(ch)
    \/ check_pro_drop_alerts_begin
    \/ check_pro_drop_alerts_eval
    \/ channel_send_ok
    \/ channel_send_error
    \/ update_dashboard
    \/ message_deleted

\* The scheduler while the dashboard is set up in one channel or the other
\* and its message may be deleted.
TwoChannelSpec == TwoChannelInit /\ [][TwoChannelNext]_vars

\* The API is started on an empty table; the bot is not running.
ValidationInit ==
    /\ clock = 0
    /\ store = <<>>
    /\ ALERT_CHANNEL_ID = NoChannel
    /\ dashboard_message_id = NoChannel
    /\ dashboard_channel_id = NoChannel
    /\ alerted_timers = {}
    /\ update_dashboard_running = FALSE
    /\ alert_running = FALSE
    /\ tick_due = TRUE
    /\ pc = "idle"
    /\ timers = <<>>
    /\ now = 0
    /\ idx = 0
    /\ channel = NoChannel
    /\ fetch_status = "none"
    /\ notified = {}
    /\ last_good = <<>>
    /\ faulted = FALSE
    /\ inflight = 0
    /\ ready_again = FALSE
    /\ channels = Channels
    /\ message_exists = FALSE
    /\ cmd = NoCommand
    /\ response = NoResponse

ValidationNext ==
    \/ \E body \in Bodies, db_ok \in BOOLEAN : create_timer_request(body, db_ok)
    \/ \E id \in Ids, body \in Bodies, db_ok \in BOOLEAN :
            update_timer_request(id, body, db_ok)

\* Create and update requests with bodies of every kind.
ValidationSpec == ValidationInit /\ [][ValidationNext]_vars

(* ------------------------------ properties ---------------------------- *)
\* window_start - 10m <= t <= window_start - 5m
InFiringBand(timer, t) ==
    /\ timer.pro_drop_start # None
    /\ \E ws \in timer.pro_drop_start :
        ws - Minutes(10) <= t /\ t <= ws - Minutes(5)

\* The step in which await channel.send returns normally.
SendReturns == pc = "send" /\ pc' = "eval"
\* The step in which a send ends, normally or by raising.
SendEnds == pc = "send" /\ pc' # "send"
\* The step that ends a tick.
TickEnds == pc # "idle" /\ pc' = "idle"
\* The step that ends a tick through the prune.
PruneStep == pc = "eval" /\ pc' = "idle"
\* The step in which await channel.send raises.
SendRaises == pc = "send" /\ pc' = "idle"
\* The step in which a tick's fetch fails.
FetchFails == pc = "idle" /\ pc' = "eval" /\ fetch_status' # "ok"

\* C1: an alert is a one-time notification: whatever ticks (also ticks whose
\* fetch fails), creations and deletions happen, no message is delivered for
\* an id that already had one delivered and has stayed in the store since.
C1_OneNotificationPerStoredId ==
    [][SendReturns => ~(timers[idx].id \in notified /\ timers[idx].id \in DOMAIN store)]_vars

\* C2: while a send is being awaited for a timer, its id is not in
\* alerted_timers: no message is dispatched for an id that is in
\* alerted_timers when it is evaluated, so none is dispatched for it for as
\* long as it remains there.
C2_NoDispatchWhileAlerted ==
    pc = "send" => timers[idx].id \notin alerted_timers

\* C2 witness: a tick is dispatching for the first timer of its snapshot
\* while the second one, inside its band too, is in alerted_timers.
C2_Witness ==
    /\ pc = "send"
    /\ idx = 1
    /\ Len(timers) = 2
    /\ timers[2].id \in alerted_timers
    /\ InFiringBand(timers[2], now)

C4_DispatchOnlyInBand ==
    pc = "send" =>
        /\ InFiringBand(timers[idx], now)
        /\ timers[idx].id \notin alerted_timers

\* C4 witness: a dispatch at the last instant of the band, in a tick that
\* passed over a timer whose band had closed one interval earlier.
C4_Witness ==
    /\ pc = "send"
    /\ \E ws \in timers[idx].pro_drop_start : now = ws - Minutes(5)

C6_SendErrorDoesNotEndTick ==
    [][SendEnds => (pc' = "eval" /\ idx' = idx + 1)]_vars

C8_NoOrphanAtTickEnd ==
    [][TickEnds => alerted_timers' \subseteq current_timer_ids]_vars

\* C9: the prune with live set L leaves exactly alerted_timers \cap L: the
\* result is within L and within the old set, and keeps every old id of L.
C9_PruneIsIntersection ==
    [][PruneStep =>
          /\ alerted_timers' \subseteq current_timer_ids
          /\ alerted_timers' \subseteq alerted_timers
          /\ \A i \in alerted_timers :
                i \in current_timer_ids => i \in alerted_timers']_vars

\* C9 witness: the loop of a tick is at its end with an alerted id in the
\* snapshot and another one outside it.
C9_Witness ==
    /\ pc = "eval"
    /\ NextToSend(idx) = 0
    /\ alerted_timers \cap current_timer_ids # {}
    /\ alerted_timers \ current_timer_ids # {}

\* C10: at most one tick of check_pro_drop_alerts is in flight.
C10_OneTickInFlight == inflight <= 1

\* C10 witness: a tick is still awaiting a send when the next interval has
\* elapsed, and on_ready has fired again with the loops running.
C10_Witness ==
    /\ inflight = 1
    /\ pc = "send"
    /\ tick_due
    /\ ready_again

\* The ids a tick that began now, with a successful fetch, at time t, would
\* dispatch a message for.
Dispatchable(t) ==
    {id \in DOMAIN store :
        LET timer == TimerResponse(id, store[id])
        IN /\ id \notin alerted_timers
           /\ timer.pro_drop_start # None
           /\ InFiringBand(timer, t)
           /\ (IF ALERT_CHANNEL_ID # NoChannel THEN ALERT_CHANNEL_ID
                ELSE dashboard_channel_id) \in channels}

\* Both dashboard ids are set.
DashboardSet == dashboard_message_id # NoChannel /\ dashboard_channel_id # NoChannel

\* C11: a failure inside a tick ends neither loop: a loop that is running is
\* still running after every step, whatever was raised in a tick of
\* check_pro_drop_alerts or of update_dashboard.
C11_FailureEndsNoLoop ==
    [][/\ alert_running => alert_running'
       /\ update_dashboard_running => update_dashboard_running']_vars

\* C11 witness: a send has raised or a fetch has failed, the dashboard has
\* lost its message and reset its ids (a message had gone out through the
\* dashboard's channel), both loops are running and a later tick of the
\* scheduler has fetched its snapshot.
C11_Witness ==
    /\ faulted
    /\ pc = "eval"
    /\ fetch_status = "ok"
    /\ alert_running
    /\ update_dashboard_running
    /\ ALERT_CHANNEL_ID = NoChannel
    /\ notified # {}
    /\ dashboard_channel_id = NoChannel

\* C12: a tick of update_dashboard, failing or not, leaves unchanged the
\* set of timers the scheduler would dispatch for.
C12_DashboardLeavesAlerts ==
    [][update_dashboard => Dispatchable(clock)' = Dispatchable(clock)]_vars

\* C13: whenever the dashboard's message or its channel is gone, the tick
\* of update_dashboard takes the path that clears both ids.
C13_TargetLossClearsIds ==
    (DashboardSet /\ (~message_exists \/ dashboard_channel_id \notin channels))
        => "NotFound" \in update_dashboard_outcomes

\* C13 as amended: with the message gone and the channel there, a tick does
\* not edit: it raises, and on discord.NotFound clears both ids; with the
\* channel gone a tick returns at the channel lookup and leaves the ids; with
\* an id unset a tick returns at once; and no tick creates a message or sets
\* an id: the ids change in a tick only by both being cleared.
C13_LossDisablesDashboard ==
    /\ [](/\ (DashboardSet /\ dashboard_channel_id \in channels /\ ~message_exists)
                => update_dashboard_outcomes = {"NotFound", "HTTPException"}
          /\ (DashboardSet /\ dashboard_channel_id \notin channels)
                => update_dashboard_outcomes = {"no_channel"}
          /\ ~DashboardSet => update_dashboard_outcomes = {"return"})
    /\ [][update_dashboard =>
            /\ message_exists' = message_exists
            /\ \/ UNCHANGED <<dashboard_message_id, dashboard_channel_id>>
               \/ /\ ~message_exists
                  /\ dashboard_channel_id \in channels
                  /\ dashboard_message_id' = NoChannel
                  /\ dashboard_channel_id' = NoChannel]_vars

\* C13 witness: the dashboard was set up (a message went out through its
\* channel), its message was deleted, a tick has cleared both ids, and the
\* loop, still running, now returns at once.
C13_Witness ==
    /\ ~DashboardSet
    /\ dashboard_message_id = NoChannel
    /\ dashboard_channel_id = NoChannel
    /\ ~message_exists
    /\ channels = Channels
    /\ ALERT_CHANNEL_ID = NoChannel
    /\ notified # {}
    /\ update_dashboard_running
    /\ update_dashboard_outcomes = {"return"}

\* C14: the channel a message is dispatched to is ALERT_CHANNEL_ID when it
\* is set and dashboard_channel_id when it is not, and it is a channel.
C14_TargetChannel ==
    [][(pc = "eval" /\ pc' = "send") =>
          /\ channel' # NoChannel
          /\ channel' = IF ALERT_CHANNEL_ID # NoChannel THEN ALERT_CHANNEL_ID
                        ELSE dashboard_channel_id]_vars

\* C14 witness: with no alert channel configured a message is being sent to
\* the dashboard's channel.
C14_Witness ==
    /\ pc = "send"
    /\ ALERT_CHANNEL_ID = NoChannel
    /\ dashboard_channel_id # NoChannel
    /\ channel = dashboard_channel_id

\* C15: with neither channel configured, the loop of a tick runs to its end
\* without a dispatch and without an error, and adds no id to alerted_timers.
C15_NoChannelSkips ==
    [][(pc = "eval" /\ ALERT_CHANNEL_ID = NoChannel
            /\ dashboard_channel_id = NoChannel) =>
          /\ pc' = "idle"
          /\ alerted_timers' \subseteq alerted_timers
          /\ notified' = notified
          /\ faulted' = faulted
          /\ alert_running' = alert_running]_vars

\* C15 witness: the tick at time 0 fetched a timer inside its band with no
\* channel configured and has ended: nothing failed, nothing was sent, and
\* the timer is not marked, so that it is still eligible.
C15_Witness ==
    /\ clock = 0
    /\ ~tick_due
    /\ pc = "idle"
    /\ alert_running
    /\ ~faulted
    /\ ALERT_CHANNEL_ID = NoChannel
    /\ dashboard_channel_id = NoChannel
    /\ notified = {}
    /\ \E j \in 1..Len(last_good) :
        /\ InFiringBand(last_good[j], 0)
        /\ last_good[j].id \notin alerted_timers
        /\ last_good[j].id \in DOMAIN store

\* C16: no tick of update_dashboard, no setup_dashboard, no clear_timers and
\* no recording command changes alerted_timers.
C16_HandlersLeaveAlerted ==
    [][alerted_timers' = alerted_timers]_vars

\* C16 witness: with every id alerted, a command has recorded a timer, the
\* dashboard has been set up and its loop started, and clear_timers has
\* emptied the table.
C16_Witness ==
    /\ alerted_timers = Ids
    /\ cmd.reply = "recorded"
    /\ cmd.created = 1
    /\ store = <<>>
    /\ dashboard_message_id # NoChannel
    /\ update_dashboard_running

\* C17: while a recording command waits on a requests.post or on the sleep
\* between two attempts, the bot's other handlers can take a step.
C17_CallSuspendsOnlyCaller ==
    cmd.pc \in {"post", "sleep"} => ENABLED on_ready

\* C18: a tick reads the clock and the table once, when it begins; until it
\* ends its snapshot and its now do not change, whatever happens to the
\* table; and its prune keeps the alerted ids of that snapshot.
C18_TickUsesOneSnapshot ==
    [][/\ (pc = "idle" /\ pc' = "eval") =>
            /\ now' = clock
            /\ timers' \in {<<>>, read_timers(store, 0, BOT_QUERY_LIMIT)}
       /\ (pc # "idle" /\ pc' # "idle") => (timers' = timers /\ now' = now)
       /\ PruneStep =>
            alerted_timers' =
                alerted_timers \cap {timers[j].id : j \in 1..Len(timers)}]_vars

\* C18 witness: a tick is awaiting a send, with an id marked, while the clock
\* has moved on from its now and the table no longer holds the ids of its
\* snapshot.
C18_Witness ==
    /\ pc = "send"
    /\ idx = 2
    /\ alerted_timers # {}
    /\ clock > now
    /\ DOMAIN store # {timers[j].id : j \in 1..Len(timers)}

\* C19: when every attempt has failed by a connection error or a timeout,
\* the waits between the attempts were 1 s, 2 s and 4 s.
C19_BackoffOneTwoFour ==
    cmd.result \in {"ConnectionError", "Timeout"} => cmd.waits = <<1, 2, 4>>

\* C19, the part the code keeps: there are at most 3 attempts, with a wait
\* of 1 s after the first and of 2 s after the second and no other wait; no
\* attempt is made once a response was returned; a connection error or a
\* timeout is raised to the caller only from the third attempt, and the
\* third attempt always ends the call.
C19_ThreeAttemptsTwoWaits ==
    /\ [](/\ cmd.attempt \in 0..2
          /\ cmd.waits \in {<<>>, <<1>>, <<1, 2>>}
          /\ Len(cmd.waits) = cmd.attempt + (IF cmd.pc = "sleep" THEN 1 ELSE 0)
          /\ cmd.pc # "idle" => cmd.result = "none"
          /\ cmd.result \in {"ConnectionError", "Timeout"} =>
                (cmd.attempt = 2 /\ cmd.reply = "connect_failed"))
    /\ [][(cmd.pc = "post" /\ cmd.attempt = 2) =>
            (cmd'.pc = "idle" /\ cmd'.result # "none")]_vars

\* C19, the run that shows it: three attempts have timed out, after waits of
\* 1 s and 2 s, and the command has reported the failure.
C19_Witness ==
    /\ cmd.pc = "idle"
    /\ cmd.result = "Timeout"
    /\ cmd.attempt = 2
    /\ cmd.waits = <<1, 2>>
    /\ cmd.reply = "connect_failed"

\* C20: a 4xx or 5xx response to the first attempt is returned as it is:
\* the call has made exactly one attempt and slept nothing, the command has
\* reported the error, and no event was stored.
C20_StatusNotRetried ==
    (cmd.result \in {"4xx", "5xx"} /\ cmd.attempt = 0) =>
        /\ cmd.pc = "idle"
        /\ cmd.waits = <<>>
        /\ cmd.reply = "api_error"
        /\ cmd.created = 0

\* C20, the part the code keeps: a 4xx or 5xx response ends the call at that
\* attempt, with nothing slept and nothing retried, and the command reports
\* the error.
C20_ResponseEndsCall ==
    /\ [](cmd.result \in {"4xx", "5xx"} =>
            (cmd.pc = "idle" /\ cmd.reply = "api_error"))
    /\ [][(cmd.pc = "post" /\ cmd'.result \in {"4xx", "5xx"}) =>
            /\ cmd'.pc = "idle"
            /\ cmd'.attempt = cmd.attempt
            /\ cmd'.waits = cmd.waits
            /\ cmd'.reply = "api_error"]_vars

\* C21: a fetch that ended in a connection error or a timeout has given up
\* only after its retries: it has made MAX_RETRIES attempts.
C21_FetchRetries ==
    (response.op = "get_timers_from_api" /\ response.status = "error")
        => response.attempts = MAX_RETRIES

\* C22: an event is fresh when it is first evaluated: an event of a tick's
\* snapshot whose id is in alerted_timers has had a message of its own, sent
\* since it was created.
C22_NewEventIsFresh ==
    [][(pc = "idle" /\ pc' = "eval") =>
          \A j \in 1..Len(timers') :
              timers'[j].id \in alerted_timers' => timers'[j].id \in notified']_vars

\* Timer id has a twin: another stored timer of the same type and time.
HasTwin(id) ==
    /\ id \in DOMAIN store
    /\ \E other \in DOMAIN store \ {id} : store[other] = store[id]

\* C23: two timers of the same type and time with different ids are alerted
\* each on its own and once: a message delivered for one of them is the first
\* for its id, and marks its id and no other.
C23_TwinsAlertedOnceEach ==
    [][(SendReturns /\ HasTwin(timers[idx].id)) =>
          /\ timers[idx].id \notin notified
          /\ alerted_timers' = alerted_timers \cup {timers[idx].id}]_vars

\* C23, the part the code keeps: the message delivered for a timer marks its
\* id and leaves its twin as it was, so that the twin is still dispatched.
C23_TwinNotSuppressed ==
    [][(SendReturns /\ HasTwin(timers[idx].id)) =>
          alerted_timers' = alerted_timers \cup {timers[idx].id}]_vars

\* The records of the lists the API has answered and the bot has fetched.
ListedRecords == {response.body[k] : k \in 1..Len(response.body)}

\* C24: every record the API lists carries the window of the reference
\* table: for a friendly_hit and an enemy_hit it starts 3 h 40 min (220 min)
\* and ends 4 h 20 min (260 min) after time_shot; for a pro_whack it starts and
\* ends 15 min after time_shot.
C24_WindowTable ==
    \A rec \in ListedRecords :
        /\ rec.timer_type \in {"friendly_hit", "enemy_hit"} =>
              /\ rec.pro_drop_start = {rec.time_shot + Minutes(220)}
              /\ rec.pro_drop_end = {rec.time_shot + Minutes(260)}
        /\ rec.timer_type = "pro_whack" =>
              /\ rec.pro_drop_start = {rec.time_shot + Minutes(15)}
              /\ rec.pro_drop_end = rec.pro_drop_start

\* C24 witness: one list of the API holds an enemy_hit and a pro_whack of
\* different times.
C24_Witness ==
    /\ response.op = "read_timers"
    /\ response.status = "200"
    /\ \E a, b \in ListedRecords :
          /\ a.timer_type = "enemy_hit"
          /\ b.timer_type = "pro_whack"
          /\ a.time_shot # b.time_shot

\* C25: a timer of a type outside the enumeration is listed with no window,
\* (None, None); no tick dispatches a message for it, and it is never marked
\* alerted.
C25_NoWindowNeverAlerted ==
    /\ \A j \in 1..Len(timers) :
          timers[j].timer_type \notin TimerTypes =>
              (timers[j].pro_drop_start = None /\ timers[j].pro_drop_end = None)
    /\ pc = "send" => timers[idx].timer_type \in TimerTypes
    /\ \A id \in DOMAIN store :
          store[id].timer_type \notin TimerTypes =>
              (id \notin alerted_timers /\ id \notin notified)

\* C25 witness: a tick has evaluated the timer of unknown type together with
\* a friendly_hit of the same time, inside the hit's band, and has ended with
\* the hit alerted and the other timer not.
C25_Witness ==
    /\ pc = "idle"
    /\ ~faulted
    /\ DOMAIN store = {1, 2}
    /\ store[1].timer_type = UnknownType
    /\ store[2].timer_type = "friendly_hit"
    /\ store[2].time_shot = store[1].time_shot
    /\ Len(last_good) = 2
    /\ notified = {2}
    /\ alerted_timers = {2}

\* The instant of 00:00:00 of the day of t.
Midnight(t) == t - (t % Days(1))

\* C27: a command given a time of day records the instant of that time of
\* day today when it is not later than now, and yesterday otherwise: the
\* recorded instant is never later than now and less than 24 h before it;
\* and the row the API stores carries that instant.
C27_DayRollover ==
    /\ [][\A tod \in RolloverTimesOfDay :
            (im_hit(Some(tod)) \/ pro_whack(Some(tod)) \/ enemy_hit(Some(tod))) =>
                LET ts == TheValue(cmd'.payload).time_shot
                IN /\ ts % Days(1) = tod
                   /\ ts = IF tod <= clock - Midnight(clock)
                              THEN Midnight(clock) + tod
                              ELSE Midnight(clock) - Days(1) + tod
                   /\ clock - Days(1) < ts
                   /\ ts <= clock]_vars
    /\ [][cmd.pc = "post" =>
            \A id \in DOMAIN store' \ DOMAIN store :
                store'[id].time_shot = TheValue(cmd.payload).time_shot]_vars

\* C27 witness: at one minute past midnight a command given the last half
\* minute of the day has stored a timer at that time of the day before, next
\* to a timer a command given 00:01:00 has stored at that very instant.
C27_Witness ==
    /\ clock = Minutes(1)
    /\ cmd.reply = "recorded"
    /\ \E a, b \in DOMAIN store :
          /\ store[a].time_shot = Midnight(clock) - 1
          /\ store[b].time_shot = clock

\* C28: a list answered for limit N holds at most MAX_QUERY_LIMIT records,
\* and at most N (for an N that is a count), whatever the table holds.
C28_ListIsCapped ==
    response.op = "read_timers" =>
        /\ Len(response.body) <= MAX_QUERY_LIMIT
        /\ response.args[2] >= 0 => Len(response.body) <= response.args[2]

\* C28, the part the code keeps: for a limit that is not negative the list
\* holds at most min(limit, 500) records, and the list the bot fetches holds
\* at most 500.
C28_CountLimitIsCapped ==
    /\ (response.op = "read_timers" /\ response.args[2] >= 0) =>
          Len(response.body) <= Min(response.args[2], MAX_QUERY_LIMIT)
    /\ response.op = "get_timers_from_api" => Len(response.body) <= MAX_QUERY_LIMIT

\* The ids of the records of a list.
ListedIds(body) == {body[k].id : k \in 1..Len(body)}

\* C29: a list holds the most recent records: the newest timer of the table
\* is in every list answered for a limit of one or more from the start, and
\* in every snapshot the bot fetches with success.
C29_ListHoldsNewest ==
    [][/\ (\E limit \in ReadLimits : limit >= 1 /\ read_timers_request(0, limit, TRUE))
            => (store # <<>> => Max(DOMAIN store) \in ListedIds(response'.body))
       /\ get_timers_from_api_call("ok")
            => (store # <<>> => Max(DOMAIN store) \in ListedIds(response'.body))]_vars

\* C30: a DELETE answered 200 was for a stored id and has removed that row
\* and no other; a DELETE of an absent id is answered 404 when the database
\* answers, and every DELETE not answered 200 leaves the table as it was: a
\* second DELETE of the same id changes nothing.
C30_DeleteIdempotent ==
    [][\A id \in Ids : \A db_ok \in BOOLEAN :
          delete_timer_request(id, db_ok) =>
              /\ response'.status = "200" =>
                    /\ id \in DOMAIN store
                    /\ DOMAIN store' = DOMAIN store \ {id}
                    /\ \A other \in DOMAIN store' : store'[other] = store[other]
              /\ response'.status # "200" => store' = store
              /\ (db_ok /\ id \in DOMAIN store) => response'.status = "200"
              /\ (db_ok /\ id \notin DOMAIN store) => response'.status = "404"
              /\ id \notin DOMAIN store => store' = store]_vars

\* C30 witness: of two timers the first was deleted, and a second DELETE of
\* its id has been answered 404 with the other timer still stored.
C30_Witness ==
    /\ response.op = "delete_timer"
    /\ response.status = "404"
    /\ response.args = <<1>>
    /\ DOMAIN store = {2}

\* C31: every stored timer has a user_name that is a text of 1 to 100
\* characters with no whitespace around it, a timer_type of the enumeration
\* and a time_shot.
C31_StoredTimersValid ==
    \A id \in DOMAIN store :
        /\ store[id].user_name # None
        /\ \A v \in store[id].user_name :
              Len(v) >= 1 /\ Len(v) <= MAX_NAME_LENGTH /\ strip(v) = v
        /\ store[id].timer_type # None
        /\ store[id].timer_type \subseteq TimerTypes
        /\ store[id].time_shot # None

\* C31, the part the code keeps: a request answered 422 leaves the table as
\* it was, and every row create_timer stores is valid.
C31_CreateStoresValid ==
    [][/\ response'.status = "422" => store' = store
       /\ \A id \in DOMAIN store' \ DOMAIN store :
            /\ TimerResponse_valid(store'[id])
            /\ \A v \in store'[id].user_name :
                  Len(v) >= 1 /\ Len(v) <= MAX_NAME_LENGTH /\ strip(v) = v
            /\ store'[id].timer_type \subseteq TimerTypes]_vars

\* C32: a tick whose fetch failed (an exception or a status other than 200)
\* ends with alerted_timers as it was.
C32_FailedFetchKeepsAlerted ==
    [][(PruneStep /\ fetch_status # "ok") => alerted_timers' = alerted_timers]_vars

\* C32, the part the code keeps: a tick whose fetch failed sends nothing and
\* adds no id to alerted_timers.
C32_FailedFetchAddsNothing ==
    [][fetch_status # "ok" =>
          /\ pc' # "send"
          /\ (pc = "eval" => alerted_timers' \subseteq alerted_timers)]_vars

\* C33: alerted_timers is empty when the process starts, and an id enters
\* it only in the step in which the send of that id's alert returns; the
\* alert sent was for a timer of a known type inside its band, to a channel
\* that was resolved.
C33_AlertedOnlyAfterSend ==
    /\ alerted_timers = {}
    /\ [][\A id \in alerted_timers' \ alerted_timers :
            /\ SendReturns
            /\ id = timers[idx].id
            /\ id \in notified'
            /\ InFiringBand(timers[idx], now)
            /\ timers[idx].timer_type \in TimerTypes
            /\ channel # NoChannel]_vars

\* C33 witness: a tick has sent the alert of one timer of the snapshot and
\* marked it, and has passed over another that is outside its band, which
\* is not marked.
C33_Witness ==
    /\ pc = "eval"
    /\ \E j, k \in 1..Len(timers) :
        /\ j < idx /\ k < idx
        /\ timers[j].id \in alerted_timers \cap notified
        /\ ~InFiringBand(timers[k], now)
        /\ timers[k].id \notin alerted_timers

\* A tick is due while the timer is stored and inside its band, with the
\* loop running, the channel resolvable and no fetch or send failed so far.
DueInBand(id) ==
    /\ id \in DOMAIN store
    /\ InFiringBand(TimerResponse(id, store[id]), clock)
    /\ store[id].timer_type \in TimerTypes
    /\ alert_running /\ tick_due /\ pc = "idle"
    /\ get_channel(alert_channel_id) # NoChannel
    /\ ~faulted

\* C34: with ticks on time, fetches and sends that succeed and a channel
\* that resolves, a timer that is stored and inside its band when a tick is
\* due is notified, unless it is deleted first.
C34_InBandEventuallyNotified ==
    \A id \in Ids :
        DueInBand(id) ~>
            \/ id \in notified
            \/ id \notin DOMAIN store
            \/ faulted
            \/ get_channel(alert_channel_id) = NoChannel

\* C34, the part the code keeps: the same for a timer whose id is not in
\* alerted_timers when the tick is due.
C34_UnmarkedEventuallyNotified ==
    \A id \in Ids :
        (DueInBand(id) /\ id \notin alerted_timers) ~>
            \/ id \in notified
            \/ id \notin DOMAIN store
            \/ faulted
            \/ get_channel(alert_channel_id) = NoChannel

\* C35: every alert a tick sends goes to the channel its first alert went
\* to.
C35_OneChannelPerTick ==
    [][(pc = "eval" /\ pc' = "send" /\ channel # NoChannel) => channel' = channel]_vars

\* C35, the part the code keeps: with ALERT_CHANNEL_ID set, every alert of
\* a tick goes to that channel.
C35_ConfiguredChannelPerTick ==
    [][(pc' = "send" /\ ALERT_CHANNEL_ID # NoChannel) => channel' = ALERT_CHANNEL_ID]_vars

\* C36: the POSTs of one invocation of a recording command have stored at
\* most one timer.
C36_OneTimerPerCommand == cmd.created <= 1

\* C36, the part the code keeps: each POST stores at most one timer, so
\* that an invocation has stored at most one timer per attempt it made, and
\* at most one when it made no retry.
C36_OneTimerPerAttempt == cmd.created <= cmd.attempt + 1

====
